---- MODULE Spec2Model ----
(***************************************************************************)
(* Model of app.py: the index handler (generate -> sanitize -> execute ->  *)
(* inspect -> render), the download_midi handler, the fixed-named artifact *)
(* file output.mid shared by all requests, and the pure function           *)
(* strip_markdown_code.                                                    *)
(***************************************************************************)
EXTENDS Integers, Sequences, FiniteSets, TLC

\* ------------------------------------------------------------- bounds
\* Number of request-handling threads of the server (concurrent requests).
NumWorkers == 2
\* Total number of POST requests served in one behaviour.
MaxRuns == 2
\* Longest arbitrary input string given to strip_markdown_code.
MaxLen == 9
\* Longest inner content of a fence-wrapped completion.
MaxInner == 5
\* Longest language tag of a fence-wrapped completion.
MaxTag == 1

Workers == 1..NumWorkers

\* ------------------------------------------------------------- strings
\* A string is a sequence of characters.  Three characters stand for the
\* three classes the regular expressions of strip_markdown_code tell apart:
\* the backtick, the newline, and any other character.
BACKTICK == "tick"
NEWLINE == "nl"
LETTER == "a"
Chars == {BACKTICK, NEWLINE, LETTER}
TagChars == {BACKTICK, LETTER}

Strings(n) == UNION {[1..k -> Chars] : k \in 0..n}
TagStrings(n) == UNION {[1..k -> TagChars] : k \in 0..n}

FENCE == <<BACKTICK, BACKTICK, BACKTICK>>
TRAILING_FENCE == <<NEWLINE>> \o FENCE

StartsWith(t, p) == Len(t) >= Len(p) /\ SubSeq(t, 1, Len(p)) = p
EndsWith(t, p) == Len(t) >= Len(p) /\ SubSeq(t, Len(t) - Len(p) + 1, Len(t)) = p

\* Index of the first newline of t, 0 when t has none.
FirstNewline(t) ==
    IF \E i \in 1..Len(t) : t[i] = NEWLINE
    THEN CHOOSE i \in 1..Len(t) : t[i] = NEWLINE /\ \A j \in 1..(i - 1) : t[j] # NEWLINE
    ELSE 0

\* Whether r"^```[^\n]*\n" matches: without re.MULTILINE "^" is the start of
\* the string only.
MatchesLeadingFence(t) == StartsWith(t, FENCE) /\ FirstNewline(t) # 0

\* Mutant of SubLeadingFence: the pattern r"^```" alone, which removes the
\* fence marker and leaves the rest of the fence line.
SubLeadingFenceMarkerOnly(t) ==
    IF StartsWith(t, FENCE) THEN SubSeq(t, 4, Len(t)) ELSE t

\* re.sub(r"^```[^\n]*\n", "", text): "[^\n]*" is greedy and stops at the
\* first newline, which the pattern consumes.
SubLeadingFence(t) ==
    IF MatchesLeadingFence(t) THEN SubSeq(t, FirstNewline(t) + 1, Len(t)) ELSE t

\* Mutant of SubTrailingFence: the pattern r"```$", which leaves the newline
\* before the trailing fence marker.
SubTrailingFenceKeepNewline(t) ==
    IF EndsWith(t, FENCE)
    THEN SubSeq(t, 1, Len(t) - 3)
    ELSE IF EndsWith(t, FENCE \o <<NEWLINE>>)
         THEN SubSeq(t, 1, Len(t) - 4) \o <<NEWLINE>>
         ELSE t

\* re.sub(r"\n```$", "", text): without re.MULTILINE "$" matches at the end
\* of the string and just before a newline that ends the string, so the
\* pattern matches a final "\n```" and also the "\n```" of a final "\n```\n"
\* (whose last newline stays).  The two cannot both match.
SubTrailingFence(t) ==
    IF EndsWith(t, TRAILING_FENCE)
    THEN SubSeq(t, 1, Len(t) - 4)
    ELSE IF EndsWith(t, TRAILING_FENCE \o <<NEWLINE>>)
         THEN SubSeq(t, 1, Len(t) - 5) \o <<NEWLINE>>
         ELSE t

strip_markdown_code(text) == SubTrailingFence(SubLeadingFence(text))

\* A raw completion wrapped in one leading fence line and one trailing fence
\* marker at the very end.
Wrap(tag, inner) == FENCE \o tag \o <<NEWLINE>> \o inner \o TRAILING_FENCE

\* Inputs of the sanitizer: every string up to MaxLen, and every wrapped
\* completion with a tag up to MaxTag and inner content up to MaxInner.
SanInputs ==
    Strings(MaxLen) \cup
    {Wrap(tag, inner) : tag \in TagStrings(MaxTag), inner \in Strings(MaxInner)}

\* ------------------------------------------------------------- pipeline
\* Completions the generation service may return: empty text, and a program
\* wrapped in code fences.
RawCompletions == {<<>>, Wrap(<<>>, <<LETTER>>)}

\* Flash messages of the two error paths of index.
LLM_ERROR == "Error while calling LLM chain"
EXEC_ERROR == "An error occurred while executing the generated code."

\* output.mid: absent, or present with the run whose child wrote it (0: a file
\* already in the working directory when the server started) and whether it
\* is a well-formed MIDI container.
NoFile == [exists |-> FALSE, writer |-> 0, wellformed |-> FALSE]
Artifact(r, ok) == [exists |-> TRUE, writer |-> r, wellformed |-> ok]

\* midi_info = "" and the two texts get_midi_info returns; artifact names the
\* file contents the text was computed from.
NoInfo == [text |-> "", artifact |-> 0]

NoResp == [kind |-> "none"]

VARIABLES
    pc,                  \* per worker: position of the index handler
    run,                 \* per worker: number of the request being served
    nextRun,             \* number of POST requests received so far
    file,                \* the artifact file output.mid in the working directory
    generated_code_raw,  \* per worker: local of index
    generated_code,      \* per worker: local of index
    tmp_file_name,       \* per worker: local of index; "" until the temporary file exists
    child,               \* per worker: the child process: "none", "running", "wrote"
                         \* (running, output.mid written), "exited"
    execution_output,    \* per worker: local of index
    flashes,             \* per worker: messages flashed by this request
    midi_info,           \* per worker: local of index
    resp,                \* per worker: the response of this request
    san_input,           \* the string first given to strip_markdown_code
    san_prev,            \* the argument of the latest application
    san_text,            \* the result of the latest application
    san_n                \* number of applications so far

sanvars == <<san_input, san_prev, san_text, san_n>>
pipevars == <<pc, run, nextRun, file, generated_code_raw, generated_code, tmp_file_name,
              child, execution_output, flashes, midi_info, resp>>
vars == <<pipevars, sanvars>>

SanInitAt(x) ==
    /\ san_input = x
    /\ san_prev = x
    /\ san_text = x
    /\ san_n = 0

\* The server after start-up: no request in progress; output.mid may be left
\* in the working directory by an earlier server process.
PipeInitAt(f) ==
    /\ pc = [w \in Workers |-> "Idle"]
    /\ run = [w \in Workers |-> 0]
    /\ nextRun = 0
    /\ file = f
    /\ generated_code_raw = [w \in Workers |-> <<>>]
    /\ generated_code = [w \in Workers |-> <<>>]
    /\ tmp_file_name = [w \in Workers |-> ""]
    /\ child = [w \in Workers |-> "none"]
    /\ execution_output = [w \in Workers |-> ""]
    /\ flashes = [w \in Workers |-> {}]
    /\ midi_info = [w \in Workers |-> NoInfo]
    /\ resp = [w \in Workers |-> NoResp]

Init ==
    /\ \E f \in {NoFile, Artifact(0, TRUE), Artifact(0, FALSE)} : PipeInitAt(f)
    /\ SanInitAt(<<>>)

\* What the runner does with a source: an empty source exits 0, prints
\* nothing and writes nothing; any other source is arbitrary.
ChildMayWrite(code) == code # <<>>
ChildExitCodes(code) == IF code = <<>> THEN {0} ELSE {0, 1}
ChildOutputValid(code) == IF code = <<>> THEN {TRUE} ELSE BOOLEAN

\* os.path.exists(midi_file_path)
path_exists(f) == f.exists

\* Mutant of get_midi_info: a summary of no file in particular.
get_midi_info_unbound(f) ==
    IF f.exists /\ f.wellformed
    THEN [text |-> "MIDI File Information", artifact |-> 0]
    ELSE [text |-> "Error reading MIDI file information", artifact |-> 0]

\* get_midi_info(midi_path, ...): the summary of the file now at the path, or
\* the error text when mido raises.  Never the empty string.
get_midi_info(f) ==
    IF f.exists /\ f.wellformed
    THEN [text |-> "MIDI File Information", artifact |-> f.writer]
    ELSE [text |-> "Error reading MIDI file information", artifact |-> f.writer]

\* POST /: the form is read and the chain is built.
index_post(w) ==
    /\ pc[w] = "Idle"
    /\ nextRun < MaxRuns
    /\ nextRun' = nextRun + 1
    /\ run' = [run EXCEPT ![w] = nextRun + 1]
    /\ pc' = [pc EXCEPT ![w] = "PromptBuilt"]
    /\ UNCHANGED <<file, generated_code_raw, generated_code, tmp_file_name, child,
                   execution_output, flashes, midi_info, resp, sanvars>>

\* chain.run returns a completion.
chain_run(w) ==
    /\ pc[w] = "PromptBuilt"
    /\ \E raw \in RawCompletions :
           generated_code_raw' = [generated_code_raw EXCEPT ![w] = raw]
    /\ pc' = [pc EXCEPT ![w] = "Generated"]
    /\ UNCHANGED <<run, nextRun, file, generated_code, tmp_file_name, child,
                   execution_output, flashes, midi_info, resp, sanvars>>

\* Mutant of chain_run_raises: the handler flashes the error and goes on
\* with an empty completion instead of returning.
chain_run_raises_no_return(w) ==
    /\ pc[w] = "PromptBuilt"
    /\ flashes' = [flashes EXCEPT ![w] = @ \cup {LLM_ERROR}]
    /\ pc' = [pc EXCEPT ![w] = "Generated"]
    /\ UNCHANGED <<run, nextRun, file, generated_code_raw, generated_code, tmp_file_name,
                   child, execution_output, midi_info, resp, sanvars>>

\* chain.run raises: flash and redirect to the form.
chain_run_raises(w) ==
    /\ pc[w] = "PromptBuilt"
    /\ flashes' = [flashes EXCEPT ![w] = @ \cup {LLM_ERROR}]
    /\ resp' = [resp EXCEPT ![w] = [kind |-> "redirect"]]
    /\ pc' = [pc EXCEPT ![w] = "Reported"]
    /\ UNCHANGED <<run, nextRun, file, generated_code_raw, generated_code, tmp_file_name,
                   child, execution_output, midi_info, sanvars>>

\* generated_code = strip_markdown_code(generated_code_raw)
sanitize(w) ==
    /\ pc[w] = "Generated"
    /\ generated_code' = [generated_code EXCEPT ![w] = strip_markdown_code(generated_code_raw[w])]
    /\ pc' = [pc EXCEPT ![w] = "Sanitized"]
    /\ UNCHANGED <<run, nextRun, file, generated_code_raw, tmp_file_name, child,
                   execution_output, flashes, midi_info, resp, sanvars>>

\* The temporary source file is created and written.
write_tmp_file(w) ==
    /\ pc[w] = "Sanitized"
    /\ tmp_file_name' = [tmp_file_name EXCEPT ![w] = "tmp.py"]
    /\ pc' = [pc EXCEPT ![w] = "TmpWritten"]
    /\ UNCHANGED <<run, nextRun, file, generated_code_raw, generated_code, child,
                   execution_output, flashes, midi_info, resp, sanvars>>

\* Creating the temporary file raises OSError; no handler encloses the
\* with statement.
write_tmp_file_raises(w) ==
    /\ pc[w] = "Sanitized"
    /\ resp' = [resp EXCEPT ![w] = [kind |-> "exception"]]
    /\ pc' = [pc EXCEPT ![w] = "Crashed"]
    /\ UNCHANGED <<run, nextRun, file, generated_code_raw, generated_code, tmp_file_name,
                   child, execution_output, flashes, midi_info, sanvars>>

\* subprocess.check_output starts the child and waits for it.
launch_child(w) ==
    /\ pc[w] = "TmpWritten"
    /\ child' = [child EXCEPT ![w] = "running"]
    /\ pc' = [pc EXCEPT ![w] = "ChildRunning"]
    /\ UNCHANGED <<run, nextRun, file, generated_code_raw, generated_code, tmp_file_name,
                   execution_output, flashes, midi_info, resp, sanvars>>

\* The runner cannot be started: OSError, which is no CalledProcessError.
launch_child_raises(w) ==
    /\ pc[w] = "TmpWritten"
    /\ resp' = [resp EXCEPT ![w] = [kind |-> "exception"]]
    /\ pc' = [pc EXCEPT ![w] = "Crashed"]
    /\ UNCHANGED <<run, nextRun, file, generated_code_raw, generated_code, tmp_file_name,
                   child, execution_output, flashes, midi_info, sanvars>>

\* The running child creates or overwrites output.mid.
child_writes_artifact(w) ==
    /\ pc[w] = "ChildRunning"
    /\ child[w] = "running"
    /\ ChildMayWrite(generated_code[w])
    /\ \E ok \in BOOLEAN : file' = Artifact(run[w], ok)
    /\ child' = [child EXCEPT ![w] = "wrote"]
    /\ UNCHANGED <<pc, run, nextRun, generated_code_raw, generated_code, tmp_file_name,
                   execution_output, flashes, midi_info, resp, sanvars>>

\* The child exits and check_output returns its output (status 0) or raises
\* CalledProcessError (any other status); the output is decoded as UTF-8 in
\* both branches, and a UnicodeDecodeError is caught by neither.
check_output_returns(w) ==
    /\ pc[w] = "ChildRunning"
    /\ child' = [child EXCEPT ![w] = "exited"]
    /\ \E code \in ChildExitCodes(generated_code[w]), valid \in ChildOutputValid(generated_code[w]) :
        /\ IF ~valid
           THEN /\ resp' = [resp EXCEPT ![w] = [kind |-> "exception"]]
                /\ pc' = [pc EXCEPT ![w] = "Crashed"]
                /\ UNCHANGED <<execution_output, flashes>>
           ELSE /\ execution_output' = [execution_output EXCEPT ![w] = "decoded"]
                /\ flashes' = [flashes EXCEPT ![w] = IF code = 0 THEN @ ELSE @ \cup {EXEC_ERROR}]
                /\ pc' = [pc EXCEPT ![w] = "Executed"]
                /\ UNCHANGED resp
    /\ UNCHANGED <<run, nextRun, file, generated_code_raw, generated_code, tmp_file_name,
                   midi_info, sanvars>>

\* midi_info = ""; if os.path.exists(midi_file_path): ... else: log.
check_artifact(w) ==
    /\ pc[w] = "Executed"
    /\ pc' = [pc EXCEPT ![w] = IF path_exists(file) THEN "Inspecting" ELSE "Inspected"]
    /\ UNCHANGED <<run, nextRun, file, generated_code_raw, generated_code, tmp_file_name,
                   child, execution_output, flashes, midi_info, resp, sanvars>>

\* midi_info = get_midi_info(midi_file_path, ...)
inspect_artifact(w) ==
    /\ pc[w] = "Inspecting"
    /\ midi_info' = [midi_info EXCEPT ![w] = get_midi_info(file)]
    /\ pc' = [pc EXCEPT ![w] = "Inspected"]
    /\ UNCHANGED <<run, nextRun, file, generated_code_raw, generated_code, tmp_file_name,
                   child, execution_output, flashes, resp, sanvars>>

\* render_template("result.html", ...), with the second existence check.
render_result(w) ==
    /\ pc[w] = "Inspected"
    /\ resp' = [resp EXCEPT ![w] =
                   [kind |-> "result",
                    generated_code |-> generated_code[w],
                    execution_output |-> execution_output[w],
                    midi_exists |-> path_exists(file),
                    midi_info |-> midi_info[w]]]
    /\ pc' = [pc EXCEPT ![w] = "Reported"]
    /\ UNCHANGED <<run, nextRun, file, generated_code_raw, generated_code, tmp_file_name,
                   child, execution_output, flashes, midi_info, sanvars>>

\* The response is sent; the handler's locals are gone and the worker is
\* free for the next request.
request_ends(w) ==
    /\ pc[w] \in {"Reported", "Crashed"}
    /\ pc' = [pc EXCEPT ![w] = "Idle"]
    /\ generated_code_raw' = [generated_code_raw EXCEPT ![w] = <<>>]
    /\ generated_code' = [generated_code EXCEPT ![w] = <<>>]
    /\ tmp_file_name' = [tmp_file_name EXCEPT ![w] = ""]
    /\ child' = [child EXCEPT ![w] = "none"]
    /\ execution_output' = [execution_output EXCEPT ![w] = ""]
    /\ flashes' = [flashes EXCEPT ![w] = {}]
    /\ midi_info' = [midi_info EXCEPT ![w] = NoInfo]
    /\ resp' = [resp EXCEPT ![w] = NoResp]
    /\ UNCHANGED <<run, nextRun, file, sanvars>>

\* GET /download_midi, served by a free worker: the file now at the path is
\* sent, or "No MIDI file found." is flashed and the client redirected.
download_midi(w) ==
    /\ pc[w] = "Idle"
    /\ run' = [run EXCEPT ![w] = 0]
    /\ resp' = [resp EXCEPT ![w] =
                   IF path_exists(file)
                   THEN [kind |-> "file", artifact |-> file.writer]
                   ELSE [kind |-> "redirect"]]
    /\ pc' = [pc EXCEPT ![w] = "Reported"]
    /\ UNCHANGED <<nextRun, file, generated_code_raw, generated_code, tmp_file_name,
                   child, execution_output, flashes, midi_info, sanvars>>

\* The steps of the index handler after the request is received.
index_step(w) ==
    \/ chain_run(w)
    \/ chain_run_raises(w)
    \/ sanitize(w)
    \/ write_tmp_file(w)
    \/ write_tmp_file_raises(w)
    \/ launch_child(w)
    \/ launch_child_raises(w)
    \/ child_writes_artifact(w)
    \/ check_output_returns(w)
    \/ check_artifact(w)
    \/ inspect_artifact(w)
    \/ render_result(w)
    \/ request_ends(w)

Next ==
    \/ \E w \in Workers : index_post(w)
    \/ \E w \in Workers : index_step(w)
    \/ \E w \in Workers : download_midi(w)

Spec == Init /\ [][Next]_vars

\* Strictly sequential requests: a request is received only when no other
\* request is in progress.
AllIdle == \A w \in Workers : pc[w] = "Idle"

NextSeq ==
    \/ \E w \in Workers : AllIdle /\ index_post(w)
    \/ \E w \in Workers : index_step(w)
    \/ \E w \in Workers : download_midi(w)

SpecSeq == Init /\ [][NextSeq]_vars

\* ------------------------------------------------------------- sanitizer
\* One application of strip_markdown_code to the current text.
SanApply ==
    /\ san_n < 2
    /\ san_prev' = san_text
    /\ san_text' = strip_markdown_code(san_text)
    /\ san_n' = san_n + 1
    /\ UNCHANGED <<san_input, pipevars>>

SanInit ==
    /\ \E x \in SanInputs : SanInitAt(x)
    /\ PipeInitAt(NoFile)

SanNext == SanApply

SpecSan == SanInit /\ [][SanNext]_vars

\* ------------------------------------------------------------- properties
\* A worker whose request has been answered with the result page.
HasResult(w) == pc[w] = "Reported" /\ resp[w].kind = "result"

\* The request flashed the execution error: CalledProcessError was caught.
ExecutionFailed(w) == EXEC_ERROR \in flashes[w]

\* Position of a handler stage in the order of the pipeline.
StageRank(stage) ==
    CASE stage = "Idle" -> 0
      [] stage = "PromptBuilt" -> 1
      [] stage = "Generated" -> 2
      [] stage = "Sanitized" -> 3
      [] stage = "TmpWritten" -> 4
      [] stage = "ChildRunning" -> 5
      [] stage = "Executed" -> 6
      [] stage = "Inspecting" -> 7
      [] stage = "Inspected" -> 8
      [] stage = "Reported" -> 9
      [] stage = "Crashed" -> 9

\* C1: a result page carries a MIDI summary (non-empty midi_info) only if the
\* run's execution succeeded and output.mid exists; a run whose child exits
\* non-zero reports no summary.
C1_SummaryOnlyAfterSuccess ==
    \A w \in Workers :
        (HasResult(w) /\ resp[w].midi_info.text # "")
            => (~ExecutionFailed(w) /\ path_exists(file))

\* C2 (as stated): applying strip_markdown_code twice gives the same text as
\* applying it once, for every input.
C2_SanitizerIdempotent == san_n = 2 => san_text = san_prev

\* The input begins with two consecutive fence lines.
TwoLeadingFenceLines(x) ==
    /\ MatchesLeadingFence(x)
    /\ MatchesLeadingFence(SubSeq(x, FirstNewline(x) + 1, Len(x)))

\* The input ends with two trailing fences: what is left when the final
\* newline-and-fence-marker is removed ends with a newline and a fence
\* marker again (directly, or before one last newline).
TwoTrailingFences(x) ==
    \/ EndsWith(x, TRAILING_FENCE \o TRAILING_FENCE)
    \/ EndsWith(x, TRAILING_FENCE \o TRAILING_FENCE \o <<NEWLINE>>)
    \/ EndsWith(x, TRAILING_FENCE \o <<NEWLINE>> \o TRAILING_FENCE)

\* C2 (amended): applying strip_markdown_code twice gives the same text as
\* applying it once, for every input that neither begins with two
\* consecutive fence lines nor ends with two trailing fences.
C2_IdempotentOnSingleFences ==
    (san_n = 2 /\ ~TwoLeadingFenceLines(san_input) /\ ~TwoTrailingFences(san_input))
        => san_text = san_prev

\* C2 witness: an input with one leading fence line and one trailing fence,
\* both removed by the first application, after the second application.
C2_Witness ==
    /\ san_n = 2
    /\ ~TwoLeadingFenceLines(san_input)
    /\ ~TwoTrailingFences(san_input)
    /\ MatchesLeadingFence(san_input)
    /\ EndsWith(san_input, TRAILING_FENCE)
    /\ Len(san_prev) + 8 <= Len(san_input)

\* C3: for every run that was executed and reported, the child's numeric exit
\* code is part of the reported outcome exactly when the outcome is Failure.
C3_ExitCodeIffFailure ==
    \A w \in Workers :
        HasResult(w) => (("exit_code" \in DOMAIN resp[w]) <=> ExecutionFailed(w))

\* C4: every step of a handler moves it forward in the stage order (or back
\* to Idle when the request has ended), and the artifact is inspected only
\* after a successful execution.
C4_ForwardAndInspectOnlyAfterSuccess ==
    [][\A w \in Workers :
          pc'[w] # pc[w] =>
              /\ (StageRank(pc'[w]) > StageRank(pc[w]) \/ pc'[w] = "Idle")
              /\ (pc'[w] = "Inspecting" => ~ExecutionFailed(w))]_vars

\* C5: no failure inside a pipeline run leaves the handler as an unhandled
\* exception.
C5_NoUnhandledException == \A w \in Workers : pc[w] # "Crashed"

\* The input is one leading fence line, inner content, a newline and one
\* trailing fence marker at the very end.
IsWrapped(x) ==
    /\ MatchesLeadingFence(x)
    /\ EndsWith(x, TRAILING_FENCE)
    /\ FirstNewline(x) + 4 <= Len(x)

\* The inner content of a wrapped input.
InnerOf(x) == SubSeq(x, FirstNewline(x) + 1, Len(x) - 4)

\* The result of the first application of strip_markdown_code.
SanFirst == IF san_n = 1 THEN san_text ELSE san_prev

C7_ReadsWhateverIsAtThePath ==
    [][\A w \in Workers :
          /\ (pc[w] = "Inspecting" /\ pc'[w] = "Inspected")
                => (midi_info'[w].text # "" /\ midi_info'[w].artifact = file.writer)
          /\ (pc[w] = "Idle" /\ pc'[w] = "Reported" /\ path_exists(file))
                => (resp'[w].kind = "file" /\ resp'[w].artifact = file.writer)]_vars

\* C7 witness: two runs are in progress at once and the result page of one
\* describes the artifact written by the child of the other.
C7_Witness ==
    \E w, v \in Workers :
        /\ w # v
        /\ HasResult(w)
        /\ pc[v] \notin {"Idle", "PromptBuilt"}
        /\ run[v] # 0
        /\ child[v] # "none"
        /\ resp[w].midi_info.text # ""
        /\ resp[w].midi_info.artifact = run[v]

\* The generation call of the worker's pipeline run has ended.
GenerationEnded(w) == run[w] # 0 /\ pc[w] \notin {"Idle", "PromptBuilt"}

\* The run has stopped at the Generated stage: no temporary file, no child,
\* no artifact read or written, no summary.
HaltedAtGenerated(w) ==
    /\ pc[w] \in {"Generated", "Reported"}
    /\ tmp_file_name[w] = ""
    /\ child[w] = "none"
    /\ midi_info[w] = NoInfo
    /\ (path_exists(file) => file.writer # run[w])

C9_SummaryOfOwnArtifact ==
    \A w \in Workers :
        (HasResult(w) /\ resp[w].midi_info.text # "")
            => resp[w].midi_info.artifact = run[w]

\* C10: on every result page midi_exists is true exactly when midi_info is
\* non-empty.
C10_ExistsFlagMatchesInfo ==
    \A w \in Workers :
        HasResult(w) => (resp[w].midi_exists <=> resp[w].midi_info.text # "")
====
